---- MODULE Spec2Model ----
(***************************************************************************)
(* LitePlex streaming bridge.                                              *)
(*                                                                         *)
(* Two programs are modelled from their source:                            *)
(*   - the chat page (ChatInterface: sendMessage, stopGeneration,          *)
(*     handleSubmit, ChatInput.handleKeyDown, the initial-query effect,    *)
(*     the conversation kept in sessionStorage across page loads),         *)
(*   - the relay route (POST of the /api/chat route handler).              *)
(*                                                                         *)
(* Text is a sequence of characters.  The literal "data: " prefix and the  *)
(* line break are kept character by character; a JSON document is the      *)
(* three tokens  {  members  }, so that a text cut inside a frame is a     *)
(* text JSON.parse rejects.                                                *)
(*                                                                         *)
(* JavaScript runs one task at a time: a handler, or the continuation of   *)
(* sendMessage / start() after an await, runs to its next await without    *)
(* interleaving.  Each action below is one such run.  React commits the    *)
(* state set by a handler before the next event is dispatched, so a        *)
(* handler reads the state variables as the previous action left them.     *)
(***************************************************************************)
EXTENDS Naturals, Sequences, FiniteSets, TLC

\* ------------------------------------------------------------------ bounds
\* Network traffic of one behaviour: one unit for every request that is
\* issued, a page load after the first included, and one for every frame of
\* a response body.
MaxTraffic == 4
\* sendMessage calls that are accepted in one behaviour.
MaxExchanges == 2

\* ------------------------------------------------------------------ JSON values
Undef == "undefined"
Null == "null"
\* What getItem returns for a key that was never written: null, which the
\* test of saved treats as it treats the empty text.
NoItem == <<>>
Keys == {"type", "messageId", "id", "status", "content", "delta", "sources"}
EmptyObj == [k \in Keys |-> Undef]
Obj1(type) == [EmptyObj EXCEPT !["type"] = type]
Obj2(type, k, v) == [EmptyObj EXCEPT !["type"] = type, ![k] = v]
Obj3(type, k1, v1, k2, v2) ==
    [EmptyObj EXCEPT !["type"] = type, ![k1] = v1, ![k2] = v2]

\* ------------------------------------------------------------------ text
\* A text is a sequence of tokens.  Ch(c) is the character c; Members(o) is
\* the run of characters between the braces of a JSON document: the
\* properties of o that are not undefined.
Ch(c) == <<c>>
Members(o) == <<"members", o>>
NL == Ch("\n")
Prefix == <<Ch("d"), Ch("a"), Ch("t"), Ch("a"), Ch(":"), Ch(" ")>>
PrefixLen == 6
Whitespace == {Ch(" "), Ch("\n"), Ch("\r"), Ch("\t")}
DoneText == <<Ch("["), Ch("DONE"), Ch("]")>>
FallbackText == <<Ch("Sorry, an error occurred. Please try again.")>>

\* First index of a line break in s, 0 when there is none.
IndexOfNL(s) ==
    IF \E i \in 1..Len(s) : s[i] = NL
    THEN CHOOSE i \in 1..Len(s) : s[i] = NL /\ \A j \in 1..(i - 1) : s[j] # NL
    ELSE 0

\* String.prototype.split('\n'): the segments between line breaks.
RECURSIVE Split(_)
Split(s) ==
    LET i == IndexOfNL(s)
    IN  IF i = 0 THEN <<s>>
        ELSE <<SubSeq(s, 1, i - 1)>> \o Split(SubSeq(s, i + 1, Len(s)))

Front(s) == SubSeq(s, 1, Len(s) - 1)
Last(s) == s[Len(s)]

\* String.prototype.startsWith / slice(n) / trim.
StartsWith(s, p) == Len(s) >= Len(p) /\ SubSeq(s, 1, Len(p)) = p
Slice(s, n) == SubSeq(s, n + 1, Len(s))
RECURSIVE TrimLeft(_)
TrimLeft(s) ==
    IF s # <<>> /\ s[1] \in Whitespace THEN TrimLeft(Tail(s)) ELSE s
RECURSIVE TrimRight(_)
TrimRight(s) ==
    IF s # <<>> /\ Last(s) \in Whitespace THEN TrimRight(Front(s)) ELSE s
Trim(s) == TrimRight(TrimLeft(s))

\* JSON.stringify of an object literal.
Stringify(o) == <<Ch("{"), Members(o), Ch("}")>>

\* JSON.parse: ok is FALSE where JSON.parse throws.
JsonParse(t) ==
    IF Len(t) = 3 /\ t[1] = Ch("{") /\ Len(t[2]) = 2 /\ t[3] = Ch("}")
    THEN [ok |-> TRUE, obj |-> t[2][2]]
    ELSE [ok |-> FALSE, obj |-> EmptyObj]

\* a || b on strings and undefined; the text a JSON string value denotes.
Falsy(v) == v \in {Undef, ""}
OrElse(a, b) == IF Falsy(a) THEN b ELSE a
Str(v) == IF Falsy(v) THEN <<>> ELSE <<Ch(v)>>

\* ------------------------------------------------------------------ state
VARIABLES
    \* ChatInterface: React state, refs and the props of the mounted page
    messages,            \* useState<Message[]>
    isLoading,           \* useState(false)
    currentStatus,       \* useState<WorkflowStatus>(null)
    hasInitialized,      \* useState(false)
    abortControllerRef,  \* useRef<AbortController | null>: 0 is null, k the
                         \* controller made by the k-th accepted sendMessage
    abortedSignals,      \* the controllers whose abort() has been called
    initialQuery,        \* prop
    chatSubmitted,       \* sessionStorage chat-submitted-<chatId>
    mounted,             \* the mount effects have run
    stored,              \* sessionStorage chat-messages-<chatId>
    crashed,             \* an effect threw and React removed the tree
    reloads,             \* page loads after the first
    \* the sendMessage call in progress
    pc,                  \* "idle" | "fetch" (await fetch) | "read" (await read)
    rpos,                \* how much of it reader.read() has handed over
    buffer,              \* let buffer
    \* observation of the run
    wireItems,           \* the frames the server encoded into wire
    wireTail,            \* text the server sent after the last delimiter
    traffic,             \* requests issued (those of a page load after the
                         \* first included) and frames received so far
    decoded,             \* the events the read loop decoded, in order
    exch,                \* state of every exchange started, oldest first
    errWrites,           \* per exchange: writes of the fallback error text
    caught,              \* what the last call that left its try block threw
                         \* there: the error's name or message, "none"
    fetches,             \* calls of fetch('/api/chat')
    lastOp,              \* the handler or continuation that ran last
    \* the relay route: one POST call
    relayPc,             \* "idle" | "fetch" (await fetch) | "read" (await
                         \* reader.read() in start) | "done"
    response,            \* what POST returned: "none" | "stream" | "500"
    request,             \* what POST received: "none" before the call
    messageId,           \* const messageId
    textId,              \* const textId
    upItems,             \* the frames the backend encoded into its body
    upTail,              \* text the backend sent after the last delimiter
    upos,                \* how much of the body reader.read() has handed over
    relayBuffer,         \* let buffer
    outbound,            \* the chunks enqueued on the outbound stream
    outState,            \* "none" | "open" | "closed" (controller.close())
                         \* | "cancelled" (by its reader)
    closeCalls,          \* calls of controller.close()
    staleCalls,          \* enqueue / close calls on a stream not open
    upFetches,           \* calls of fetch(backend)
    upState              \* the backend connection: "none" | "connecting" |
                         \* "failed" | "nobody" | "open" | "ended" | "errored"

clientVars ==
    <<messages, isLoading, currentStatus, hasInitialized, abortControllerRef,
      abortedSignals, initialQuery, chatSubmitted, mounted, stored, crashed,
      reloads, pc, rpos,
      buffer, wireItems, wireTail, traffic, decoded, exch, errWrites, caught,
      fetches, lastOp>>

relayVars ==
    <<relayPc, response, request, messageId, textId, upItems, upTail, upos, relayBuffer,
      outbound, outState, closeCalls, staleCalls, upFetches, upState>>

vars == <<clientVars, relayVars>>

\* ------------------------------------------------------------------ inputs
Deltas == {"a", "b"}
Thoughts == {"t"}
Statuses == {"searching"}
SourceLists == {"S1", "S2"}
Texts == {<<>>, <<Ch(" ")>>, <<Ch("q")>>}
Queries == {<<>>, <<Ch("q")>>}
Configs == {"absent", "valid", "invalid"}

Event(o) == [kind |-> "event", obj |-> o]
DoneItem == [kind |-> "done", obj |-> EmptyObj]
GarbageItem == [kind |-> "garbage", obj |-> EmptyObj]

\* What a server can put into one frame of the client-facing stream.
ClientItems ==
    {Event(Obj3("text-delta", "id", "s1", "delta", d)) : d \in Deltas}
    \cup {Event(Obj2("thinking", "content", t)) : t \in Thoughts}
    \cup {Event(Obj2("status", "status", s)) : s \in Statuses}
    \cup {Event(Obj2("sources", "sources", l)) : l \in SourceLists}
    \cup {Event(Obj1("ping")), DoneItem, GarbageItem}

Payload(it) ==
    CASE it.kind = "event" -> Stringify(it.obj)
      [] it.kind = "done" -> DoneText
      [] OTHER -> <<Ch("x")>>

\* One frame: the tag, the payload, a blank line.
EncodeItem(it) == Prefix \o Payload(it) \o <<NL, NL>>
RECURSIVE EncodeAll(_)
EncodeAll(items) ==
    IF items = <<>> THEN <<>> ELSE EncodeItem(Head(items)) \o EncodeAll(Tail(items))

SeqsUpTo(S, n) == UNION {[1..k -> S] : k \in 0..n}

\* The text of the response body being read.
Wire == EncodeAll(wireItems) \o wireTail

\* Text a server may leave after the last delimiter when the body ends.
Tails(room) ==
    {<<>>} \cup (IF room > 0
                 THEN {Prefix \o Stringify(Obj3("text-delta", "id", "s1", "delta", "z"))}
                 ELSE {})

\* ------------------------------------------------------------------ consumer
UserMessage(text) ==
    [role |-> "user", content |-> text, thinking |-> <<>>, sources |-> Undef,
     timestamp |-> "Date"]
AssistantPlaceholder ==
    [role |-> "assistant", content |-> <<>>, thinking |-> <<>>, sources |-> Undef,
     timestamp |-> "Date"]

\* A consumer that puts each delta in front of the text it has.
AppendContentPrepends(content, parsed) ==
    Str(OrElse(parsed["content"], parsed["delta"])) \o content

\* lastMessage.content += parsed.content || parsed.delta || ''
AppendContent(content, parsed) ==
    content \o Str(OrElse(parsed["content"], parsed["delta"]))
\* lastMessage.thinking = (lastMessage.thinking || '') + (parsed.content || '')
AppendThinking(thinking, parsed) == thinking \o Str(parsed["content"])

\* The setMessages updaters: they touch the last message, if it is the
\* assistant's.
OnDelta(msgs, parsed) ==
    IF msgs # <<>> /\ Last(msgs).role = "assistant"
    THEN [msgs EXCEPT ![Len(msgs)].content = AppendContent(@, parsed)]
    ELSE msgs
\* An updater that keeps the sources the message already has.
OnSourcesKeepsFirst(msgs, parsed) ==
    IF msgs # <<>> /\ Last(msgs).role = "assistant" /\ Last(msgs).sources = Undef
    THEN [msgs EXCEPT ![Len(msgs)].sources = parsed["sources"]]
    ELSE msgs

\* The sources updater.
OnSources(msgs, parsed) ==
    IF msgs # <<>> /\ Last(msgs).role = "assistant"
    THEN [msgs EXCEPT ![Len(msgs)].sources = parsed["sources"]]
    ELSE msgs
\* An updater that writes the thinking text to every assistant message.
OnThinkingEveryAssistant(msgs, parsed) ==
    [i \in 1..Len(msgs) |->
        IF msgs[i].role = "assistant"
        THEN [msgs[i] EXCEPT !.thinking = AppendThinking(@, parsed)]
        ELSE msgs[i]]

OnThinking(msgs, parsed) ==
    IF msgs # <<>> /\ Last(msgs).role = "assistant"
    THEN [msgs EXCEPT ![Len(msgs)].thinking = AppendThinking(@, parsed)]
    ELSE msgs
OnStatus(status, parsed) ==
    IF parsed["status"] = "searching" THEN "searching"
    ELSE IF parsed["status"] = "summarizing" THEN "summarizing"
    ELSE status

\* The if / else-if chain on parsed.type.
Dispatch(parsed, st) ==
    LET t == parsed["type"]
        seen == [st EXCEPT !.decoded = Append(@, parsed)]
    IN  IF t \in {"content", "text-delta"}
        THEN [seen EXCEPT !.messages = OnDelta(@, parsed)]
        ELSE IF t = "sources"
        THEN [seen EXCEPT !.messages = OnSources(@, parsed)]
        ELSE IF t = "thinking"
        THEN [seen EXCEPT !.messages = OnThinking(@, parsed)]
        ELSE IF t = "status"
        THEN [seen EXCEPT !.currentStatus = OnStatus(@, parsed)]
        ELSE seen

\* A loop body that gives up on the chunk at a payload JSON.parse rejects.
ProcessLineStopsAtGarbage(line, st) ==
    IF ~StartsWith(line, Prefix) THEN st
    ELSE LET data == Trim(Slice(line, PrefixLen))
         IN  IF data = DoneText
             THEN [st EXCEPT !.brk = TRUE, !.decoded = Append(@, Obj1("[DONE]"))]
             ELSE LET p == JsonParse(data)
                  IN  IF p.ok THEN Dispatch(p.obj, st) ELSE [st EXCEPT !.brk = TRUE]

\* The body of  for (const line of lines).
ProcessLine(line, st) ==
    IF ~StartsWith(line, Prefix) THEN st
    ELSE LET data == Trim(Slice(line, PrefixLen))
         IN  IF data = DoneText
             THEN [st EXCEPT !.brk = TRUE, !.decoded = Append(@, Obj1("[DONE]"))]
             ELSE LET p == JsonParse(data)
                  IN  IF p.ok THEN Dispatch(p.obj, st) ELSE st

\* for (const line of lines): break leaves this loop only.
RECURSIVE ProcessLines(_, _, _)
ProcessLines(lines, i, st) ==
    IF i > Len(lines) \/ st.brk THEN st
    ELSE ProcessLines(lines, i + 1, ProcessLine(lines[i], st))

\* A loop that forgets the incomplete line at the end of a chunk.
KeepIncompleteForgets(segs) == <<>>

\* buffer = lines.pop() || ''
KeepIncomplete(segs) == Last(segs)

\* A pass that splits the chunk alone and leaves out the text kept from the
\* read before.
FeedIgnoresBuffer(buf, chunk, msgs, status, dec) ==
    LET segs == Split(chunk)
        st == ProcessLines(Front(segs), 1,
                  [messages |-> msgs, currentStatus |-> status,
                   decoded |-> dec, brk |-> FALSE])
    IN  [st EXCEPT !.brk = FALSE] @@ [buffer |-> KeepIncomplete(segs)]

\* One pass of the while loop over the text buffer + chunk.
Feed(buf, chunk, msgs, status, dec) ==
    LET segs == Split(buf \o chunk)
        st == ProcessLines(Front(segs), 1,
                  [messages |-> msgs, currentStatus |-> status,
                   decoded |-> dec, brk |-> FALSE])
    IN  [st EXCEPT !.brk = FALSE] @@ [buffer |-> KeepIncomplete(segs)]

\* ------------------------------------------------------------------ exchange
pageVars == <<hasInitialized, initialQuery, chatSubmitted, mounted, reloads>>
callVars == <<messages, isLoading, currentStatus, abortControllerRef, pc, exch,
              errWrites, caught>>
streamVars == <<rpos, buffer, wireItems, wireTail, decoded>>

CurrentExchange == Len(exch)
InFlight == exch # <<>> /\ Last(exch) \in {"Pending", "Streaming"}
Terminal == {"Completed", "Aborted", "Errored"}
SetExchange(state) == [exch EXCEPT ![Len(exch)] = state]
SignalAborted == abortControllerRef \in abortedSignals

\* A guard that looks at the text only.
SendBlockedTextOnly(messageText) == Trim(messageText) = <<>>

\* if (!messageText.trim() || isLoading) return
SendBlocked(messageText) == Trim(messageText) = <<>> \/ isLoading

\* A call that takes over the controller of the call before it.
ReusedAbortController == IF CurrentExchange = 0 THEN 1 ELSE CurrentExchange

\* abortControllerRef.current = new AbortController()
NewAbortController == CurrentExchange + 1

\* A catch clause that treats an AbortError like any other error.
CatchHandlerReportsAbort(error, msgs) ==
    IF error = "none" THEN [messages |-> msgs, writes |-> 0]
    ELSE IF msgs # <<>> /\ Last(msgs).role = "assistant"
         THEN [messages |-> [msgs EXCEPT ![Len(msgs)].content = FallbackText],
               writes |-> 1]
         ELSE [messages |-> msgs, writes |-> 1]

\* The catch clause: the fallback text unless the error is an AbortError.
\* error is "none" on the path that does not throw.
CatchHandler(error, msgs) ==
    IF error \in {"none", "AbortError"} THEN [messages |-> msgs, writes |-> 0]
    ELSE IF msgs # <<>> /\ Last(msgs).role = "assistant"
         THEN [messages |-> [msgs EXCEPT ![Len(msgs)].content = FallbackText],
               writes |-> 1]
         ELSE [messages |-> msgs, writes |-> 1]

\* A call whose catch clause swallows every error but the AbortError.
OutcomeSwallowsErrors(error) ==
    CASE error = "AbortError" -> "Aborted"
      [] OTHER -> "Completed"

\* How the call ended: the loop left by done, the catch of an AbortError, the
\* catch of any other error.
Outcome(error) ==
    CASE error = "none" -> "Completed"
      [] error = "AbortError" -> "Aborted"
      [] OTHER -> "Errored"

\* A finally clause that leaves the workflow status as the stream set it.
SettleKeepsStatus(error) ==
    \E c \in {CatchHandler(error, messages)} :
        /\ messages' = c.messages
        /\ errWrites' = [errWrites EXCEPT ![Len(errWrites)] = @ + c.writes]
        /\ exch' = SetExchange(Outcome(error))
        /\ caught' = error
        /\ isLoading' = FALSE
        /\ currentStatus' = currentStatus
        /\ abortControllerRef' = 0
        /\ pc' = "idle"
        /\ rpos' = 0 /\ buffer' = <<>> /\ wireItems' = <<>> /\ wireTail' = <<>>
        /\ decoded' = <<>>

\* catch and finally of sendMessage, for a call that leaves the try block;
\* the locals of the call are gone with it.
Settle(error) ==
    \E c \in {CatchHandler(error, messages)} :
        /\ messages' = c.messages
        /\ errWrites' = [errWrites EXCEPT ![Len(errWrites)] = @ + c.writes]
        /\ exch' = SetExchange(Outcome(error))
        /\ caught' = error
        /\ isLoading' = FALSE
        /\ currentStatus' = Null
        /\ abortControllerRef' = 0
        /\ pc' = "idle"
        /\ rpos' = 0 /\ buffer' = <<>> /\ wireItems' = <<>> /\ wireTail' = <<>>
        /\ decoded' = <<>>

\* A sendMessage that appends the placeholder before the user message.
SendMessagePlaceholderFirst(messageText, cfg) ==
    IF SendBlocked(messageText)
    THEN UNCHANGED <<callVars, streamVars, abortedSignals, traffic, fetches>>
    ELSE /\ abortControllerRef' = NewAbortController
         /\ messages' = messages \o <<AssistantPlaceholder, UserMessage(messageText)>>
         /\ isLoading' = TRUE
         /\ currentStatus' = "thinking"
         /\ exch' = Append(exch, "Pending")
         /\ errWrites' = Append(errWrites, 0)
         /\ caught' = caught
         /\ IF cfg = "invalid"
            THEN pc' = "idle" /\ fetches' = fetches /\ traffic' = traffic
            ELSE pc' = "fetch" /\ fetches' = fetches + 1 /\ traffic' = traffic + 1
         /\ UNCHANGED <<streamVars, abortedSignals>>

\* sendMessage up to its first await.  cfg is what localStorage holds under
\* llmConfig; JSON.parse of a text that is no JSON throws before the try
\* block and ends the call there.
SendMessage(messageText, cfg) ==
    IF SendBlocked(messageText)
    THEN UNCHANGED <<callVars, streamVars, abortedSignals, traffic, fetches>>
    ELSE /\ abortControllerRef' = NewAbortController
         /\ messages' = messages \o <<UserMessage(messageText), AssistantPlaceholder>>
         /\ isLoading' = TRUE
         /\ currentStatus' = "thinking"
         /\ exch' = Append(exch, "Pending")
         /\ errWrites' = Append(errWrites, 0)
         /\ caught' = caught
         /\ IF cfg = "invalid"
            THEN pc' = "idle" /\ fetches' = fetches /\ traffic' = traffic
            ELSE pc' = "fetch" /\ fetches' = fetches + 1 /\ traffic' = traffic + 1
         /\ UNCHANGED <<streamVars, abortedSignals>>

\* The model follows a call only while the traffic bound leaves room for its
\* request.
Room == CurrentExchange < MaxExchanges /\ traffic < MaxTraffic

\* A mount effect that submits the initial query without looking at the
\* marker.
InitialQueryEffectIgnoresMarker ==
    /\ ~mounted
    /\ mounted' = TRUE
    /\ reloads' = reloads
    /\ lastOp' = "initialQueryEffect"
    /\ \E q \in (IF reloads = 0 THEN Queries ELSE {initialQuery}) :
          /\ initialQuery' = q
          /\ IF q # <<>> /\ ~hasInitialized
             THEN /\ hasInitialized' = TRUE
                  /\ chatSubmitted' = TRUE
                  /\ \E cfg \in Configs : SendMessage(q, cfg)
             ELSE UNCHANGED <<hasInitialized, chatSubmitted, callVars, streamVars,
                              abortedSignals, traffic, fetches>>

\* The mount effect for the initial query.
InitialQueryEffect ==
    /\ ~mounted
    /\ mounted' = TRUE
    /\ reloads' = reloads
    /\ lastOp' = "initialQueryEffect"
    /\ \E q \in (IF reloads = 0 THEN Queries ELSE {initialQuery}) :
          /\ initialQuery' = q
          /\ IF q # <<>> /\ ~hasInitialized
             THEN /\ hasInitialized' = TRUE
                  /\ IF ~chatSubmitted
                     THEN /\ chatSubmitted' = TRUE
                          /\ \E cfg \in Configs : SendMessage(q, cfg)
                     ELSE UNCHANGED <<chatSubmitted, callVars, streamVars,
                                      abortedSignals, traffic, fetches>>
             ELSE UNCHANGED <<hasInitialized, chatSubmitted, callVars, streamVars,
                              abortedSignals, traffic, fetches>>

\* handleSubmit: sendMessage(input).  input is what the textarea holds.
HandleSubmit ==
    /\ mounted
    /\ Room
    /\ lastOp' = "handleSubmit"
    /\ \E input \in Texts, cfg \in Configs : SendMessage(input, cfg)
    /\ UNCHANGED pageVars

\* ChatInput.handleKeyDown for Enter without Shift: onSubmit(e) unless
\* isProcessing; any other case leaves the handler without an effect.
HandleKeyDown ==
    /\ mounted
    /\ Room
    /\ ~isLoading
    /\ lastOp' = "handleKeyDown"
    /\ \E input \in Texts, cfg \in Configs : SendMessage(input, cfg)
    /\ UNCHANGED pageVars

\* A stopGeneration whose signal the request does not carry: abort() is
\* called and the call stays suspended.
StopGenerationUnobserved ==
    /\ mounted
    /\ lastOp' = "stopGeneration"
    /\ abortedSignals' = IF abortControllerRef # 0
                         THEN abortedSignals \cup {abortControllerRef}
                         ELSE abortedSignals
    /\ UNCHANGED <<callVars, streamVars, pageVars, traffic, fetches>>

\* stopGeneration.  abort() rejects the pending fetch or read with an
\* AbortError; the continuation of sendMessage (catch, finally) is a
\* microtask of the same task, so it runs before any other event.
StopGeneration ==
    /\ mounted
    /\ lastOp' = "stopGeneration"
    /\ abortedSignals' = IF abortControllerRef # 0
                         THEN abortedSignals \cup {abortControllerRef}
                         ELSE abortedSignals
    /\ IF abortControllerRef # 0 /\ ~SignalAborted /\ pc \in {"fetch", "read"}
       THEN Settle("AbortError")
       ELSE UNCHANGED <<callVars, streamVars>>
    /\ UNCHANGED <<pageVars, traffic, fetches>>

\* await fetch(...) rejects (network), or resolves with !response.ok, or with
\* no body: the throw statements of lines 208 and 213.
FetchFailed ==
    /\ pc = "fetch" /\ ~SignalAborted
    /\ lastOp' = "fetch"
    /\ \E error \in {"TypeError", "Failed to send message", "No reader available"} :
          Settle(error)
    /\ UNCHANGED <<pageVars, abortedSignals, traffic, fetches>>

\* await fetch(...) resolves with a body; the loop reaches its first read.
FetchResponded ==
    /\ pc = "fetch" /\ ~SignalAborted
    /\ lastOp' = "fetch"
    /\ \E items \in SeqsUpTo(ClientItems, MaxTraffic - traffic) :
       \E tail \in Tails(MaxTraffic - traffic - Len(items)) :
          /\ wireItems' = items
          /\ wireTail' = tail
          /\ traffic' = traffic + Len(items) + (IF tail = <<>> THEN 0 ELSE 1)
    /\ rpos' = 0
    /\ buffer' = <<>>
    /\ pc' = "read"
    /\ exch' = SetExchange("Streaming")
    /\ UNCHANGED <<messages, isLoading, currentStatus, abortControllerRef, errWrites, caught,
                   decoded, pageVars, abortedSignals, fetches>>

\* await reader.read() resolves with a chunk, cut anywhere: one pass of the
\* while loop.
ReadChunk ==
    /\ pc = "read" /\ ~SignalAborted
    /\ lastOp' = "read"
    /\ \E w \in {Wire} :
       \E n \in 1..(Len(w) - rpos) :
       \E r \in {Feed(buffer, SubSeq(w, rpos + 1, rpos + n), messages,
                      currentStatus, decoded)} :
          /\ rpos' = rpos + n
          /\ messages' = r.messages
          /\ currentStatus' = r.currentStatus
          /\ decoded' = r.decoded
          /\ buffer' = r.buffer
    /\ UNCHANGED <<isLoading, abortControllerRef, pc, exch, errWrites, caught, wireItems,
                   wireTail, pageVars, abortedSignals, traffic, fetches>>

\* await reader.read() resolves with done: break, then finally.
ReadDone ==
    /\ pc = "read" /\ ~SignalAborted
    /\ rpos = Len(Wire)
    /\ lastOp' = "read"
    /\ Settle("none")
    /\ UNCHANGED <<pageVars, abortedSignals, traffic, fetches>>

\* A read loop that catches the failed read inside the loop: it reports the
\* failure and goes on reading.
ReadFailedKeepsReading ==
    /\ pc = "read" /\ ~SignalAborted
    /\ lastOp' = "read"
    /\ \E c \in {CatchHandler("TypeError", messages)} :
          /\ messages' = c.messages
          /\ errWrites' = [errWrites EXCEPT ![Len(errWrites)] = @ + c.writes]
    /\ exch' = SetExchange("Errored")
    /\ UNCHANGED <<isLoading, currentStatus, abortControllerRef, pc, caught,
                   streamVars, pageVars, abortedSignals, traffic, fetches>>

\* await reader.read() rejects: the connection failed.
ReadFailed ==
    /\ pc = "read" /\ ~SignalAborted
    /\ lastOp' = "read"
    /\ Settle("TypeError")
    /\ UNCHANGED <<pageVars, abortedSignals, traffic, fetches>>

\* ------------------------------------------------------------------ relay
MessageIds == {"m1"}
TextIds == {"s1"}
Requests == {"bad json", "no messages", "no content", "ok"}

\* What the backend can put into one frame of its stream.
UpstreamItems ==
    {Event(Obj2("content", "content", d)) : d \in Deltas}
    \cup {Event(Obj2("thinking", "content", t)) : t \in Thoughts}
    \cup {Event(Obj2("status", "status", st)) : st \in Statuses}
    \cup {Event(Obj2("sources", "sources", l)) : l \in SourceLists}
    \cup {Event(Obj1("done")), GarbageItem}

UpTails(room) ==
    {<<>>} \cup (IF room > 0
                 THEN {Prefix \o Stringify(Obj2("content", "content", "z"))}
                 ELSE {})

\* The text of the upstream body being read.
Upstream == EncodeAll(upItems) \o upTail

\* encoder.encode(`data: ${JSON.stringify(o)}\n\n`)
SseFrame(o) == Prefix \o Stringify(o) \o <<NL, NL>>
\* encoder.encode('data: [DONE]\n\n')
SseDone == Prefix \o DoneText \o <<NL, NL>>

StartFrame(mid) == SseFrame(Obj2("start", "messageId", mid))
TextStartFrame(tid) == SseFrame(Obj2("text-start", "id", tid))
TextEndFrame(tid) == SseFrame(Obj2("text-end", "id", tid))

\* A mapping that tags the text deltas with the message id.
MapUpstreamMessageId(data, tid) ==
    LET t == data["type"]
    IN  IF t = "status"
        THEN <<SseFrame(Obj2("status", "status", data["status"]))>>
        ELSE IF t = "thinking"
        THEN <<SseFrame(Obj2("thinking", "content", data["content"]))>>
        ELSE IF t = "content"
        THEN <<SseFrame(Obj3("text-delta", "id", messageId, "delta",
                             data["content"]))>>
        ELSE IF t = "sources"
        THEN <<SseFrame(Obj2("sources", "sources", data["sources"]))>>
        ELSE <<>>

\* A mapping that forwards a thinking event twice.
MapUpstreamTwice(data, tid) ==
    LET t == data["type"]
    IN  IF t = "status"
        THEN <<SseFrame(Obj2("status", "status", data["status"]))>>
        ELSE IF t = "thinking"
        THEN <<SseFrame(Obj2("thinking", "content", data["content"])),
               SseFrame(Obj2("thinking", "content", data["content"]))>>
        ELSE IF t = "content"
        THEN <<SseFrame(Obj3("text-delta", "id", tid, "delta", data["content"]))>>
        ELSE IF t = "sources"
        THEN <<SseFrame(Obj2("sources", "sources", data["sources"]))>>
        ELSE <<>>

\* The if / else-if chain on data.type: the frames one upstream event is
\* re-emitted as.
MapUpstream(data, tid) ==
    LET t == data["type"]
    IN  IF t = "status"
        THEN <<SseFrame(Obj2("status", "status", data["status"]))>>
        ELSE IF t = "thinking"
        THEN <<SseFrame(Obj2("thinking", "content", data["content"]))>>
        ELSE IF t = "content"
        THEN <<SseFrame(Obj3("text-delta", "id", tid, "delta", data["content"]))>>
        ELSE IF t = "sources"
        THEN <<SseFrame(Obj2("sources", "sources", data["sources"]))>>
        ELSE <<>>

\* controller.enqueue(chunk) for each chunk: it throws a TypeError on a
\* stream that is not open.  thrown tells whether one did.
Enqueue(st, chunks) ==
    IF chunks = <<>> THEN st
    ELSE IF st.state = "open"
         THEN [st EXCEPT !.outbound = @ \o chunks]
         ELSE [st EXCEPT !.stale = @ + 1, !.thrown = TRUE]

\* The body of  for (const line of lines): the inner try catches what
\* JSON.parse and enqueue throw.
RelayLine(line, st, tid) ==
    IF ~StartsWith(line, Prefix) THEN st
    ELSE LET p == JsonParse(Slice(line, PrefixLen))
         IN  IF p.ok
             THEN [Enqueue(st, MapUpstream(p.obj, tid)) EXCEPT !.thrown = FALSE]
             ELSE st

RECURSIVE RelayLines(_, _, _, _)
RelayLines(lines, i, st, tid) ==
    IF i > Len(lines) THEN st
    ELSE RelayLines(lines, i + 1, RelayLine(lines[i], st, tid), tid)

\* buffer = lines.pop() || ''
RelayKeepIncomplete(segs) == Last(segs)

\* One pass of the while loop of start().
RelayFeed(buf, chunk, st, tid) ==
    LET segs == Split(buf \o chunk)
    IN  RelayLines(Front(segs), 1, st, tid) @@ [buffer |-> RelayKeepIncomplete(segs)]

OutSt == [outbound |-> outbound, state |-> outState, stale |-> staleCalls,
          thrown |-> FALSE]

\* finally { controller.close() }: close throws on a stream not open.
Close(st) ==
    IF st.state = "open" THEN [st EXCEPT !.state = "closed"]
    ELSE [st EXCEPT !.stale = @ + 1]

\* POST up to the await of the backend fetch.  A body that is no JSON, no
\* messages, or an empty last message throws into the outer catch, which
\* answers 500.
Post ==
    /\ relayPc = "idle" /\ response = "none"
    /\ \E req \in Requests :
          /\ request' = req
          /\ IF req = "ok"
             THEN /\ \E mid \in MessageIds, tid \in TextIds :
                        messageId' = mid /\ textId' = tid
                  /\ upFetches' = upFetches + 1
                  /\ upState' = "connecting"
                  /\ relayPc' = "fetch"
                  /\ response' = response
             ELSE /\ response' = "500"
                  /\ relayPc' = "done"
                  /\ UNCHANGED <<messageId, textId, upFetches, upState>>
    /\ UNCHANGED <<upItems, upTail, upos, relayBuffer, outbound, outState,
                   closeCalls, staleCalls>>

\* A failure path that opens the outbound stream, reports the failure on it
\* and closes it.
UpstreamFailedOnStream ==
    /\ relayPc = "fetch"
    /\ response' = "stream"
    /\ outbound' = <<SseFrame(Obj1("error"))>>
    /\ outState' = "closed"
    /\ closeCalls' = closeCalls + 1
    /\ upState' = "failed"
    /\ relayPc' = "done"
    /\ UNCHANGED <<request, messageId, textId, upItems, upTail, upos, relayBuffer, staleCalls,
                   upFetches>>

\* A POST that asks the backend once more when its fetch has failed.
UpstreamFailedRetries ==
    /\ relayPc = "fetch"
    /\ IF upFetches < 2
       THEN /\ upFetches' = upFetches + 1
            /\ UNCHANGED <<response, upState, relayPc>>
       ELSE /\ response' = "500"
            /\ upState' = "failed"
            /\ relayPc' = "done"
            /\ upFetches' = upFetches
    /\ UNCHANGED <<request, messageId, textId, upItems, upTail, upos, relayBuffer,
                   outbound, outState, closeCalls, staleCalls>>

\* await fetch(backend) rejects, or resolves with !response.ok: the outer
\* catch answers 500.
UpstreamFailed ==
    /\ relayPc = "fetch"
    /\ response' = "500"
    /\ upState' = "failed"
    /\ relayPc' = "done"
    /\ UNCHANGED <<request, messageId, textId, upItems, upTail, upos, relayBuffer, outbound,
                   outState, closeCalls, staleCalls, upFetches>>

\* await fetch(backend) resolves with a response that has no body: start()
\* closes the stream at once.
UpstreamNoBody ==
    /\ relayPc = "fetch"
    /\ response' = "stream"
    /\ outState' = "closed"
    /\ closeCalls' = closeCalls + 1
    /\ upState' = "nobody"
    /\ relayPc' = "done"
    /\ UNCHANGED <<request, messageId, textId, upItems, upTail, upos, relayBuffer, outbound,
                   staleCalls, upFetches>>

\* await fetch(backend) resolves with a body: new ReadableStream runs
\* start() to its first read, and POST returns the stream.
UpstreamResponded ==
    /\ relayPc = "fetch"
    /\ \E items \in SeqsUpTo(UpstreamItems, MaxTraffic - 1) :
       \E tail \in UpTails(MaxTraffic - 1 - Len(items)) :
          upItems' = items /\ upTail' = tail
    /\ response' = "stream"
    /\ outState' = "open"
    /\ outbound' = <<StartFrame(messageId), TextStartFrame(textId)>>
    /\ upos' = 0
    /\ relayBuffer' = <<>>
    /\ upState' = "open"
    /\ relayPc' = "read"
    /\ UNCHANGED <<request, messageId, textId, closeCalls, staleCalls, upFetches>>

\* await reader.read() resolves with a chunk, cut anywhere.
RelayReadChunk ==
    /\ relayPc = "read"
    /\ \E w \in {Upstream} :
       \E n \in 1..(Len(w) - upos) :
       \E r \in {RelayFeed(relayBuffer, SubSeq(w, upos + 1, upos + n), OutSt,
                           textId)} :
          /\ upos' = upos + n
          /\ relayBuffer' = r.buffer
          /\ outbound' = r.outbound
          /\ staleCalls' = r.stale
    /\ UNCHANGED <<relayPc, response, request, messageId, textId, upItems, upTail, outState,
                   closeCalls, upFetches, upState>>

\* An end of stream that sends the sentinel before the text-end frame.
RelayReadDoneSentinelFirst ==
    /\ relayPc = "read"
    /\ upos = Len(Upstream)
    /\ \E e \in {Enqueue(OutSt, <<SseDone>>)} :
       \E d \in {IF e.thrown THEN e ELSE Enqueue(e, <<TextEndFrame(textId)>>)} :
       \E c \in {Close(d)} :
          /\ outbound' = c.outbound
          /\ outState' = c.state
          /\ staleCalls' = c.stale
    /\ closeCalls' = closeCalls + 1
    /\ upState' = "ended"
    /\ relayPc' = "done"
    /\ UNCHANGED <<response, request, messageId, textId, upItems, upTail, upos, relayBuffer,
                   upFetches>>

\* await reader.read() resolves with done: text-end and [DONE] are
\* enqueued in the outer try, then finally closes.
RelayReadDone ==
    /\ relayPc = "read"
    /\ upos = Len(Upstream)
    /\ \E e \in {Enqueue(OutSt, <<TextEndFrame(textId)>>)} :
       \E d \in {IF e.thrown THEN e ELSE Enqueue(e, <<SseDone>>)} :
       \E c \in {Close(d)} :
          /\ outbound' = c.outbound
          /\ outState' = c.state
          /\ staleCalls' = c.stale
    /\ closeCalls' = closeCalls + 1
    /\ upState' = "ended"
    /\ relayPc' = "done"
    /\ UNCHANGED <<response, request, messageId, textId, upItems, upTail, upos, relayBuffer,
                   upFetches>>

\* A catch clause that ends the stream like a normal end: text-end, the
\* sentinel, then close.
RelayReadFailedSendsDone ==
    /\ relayPc = "read"
    /\ \E e \in {Enqueue(OutSt, <<TextEndFrame(textId), SseDone>>)} :
       \E c \in {Close(e)} :
          /\ outbound' = c.outbound
          /\ outState' = c.state
          /\ staleCalls' = c.stale
    /\ closeCalls' = closeCalls + 1
    /\ upState' = "errored"
    /\ relayPc' = "done"
    /\ UNCHANGED <<response, request, messageId, textId, upItems, upTail, upos,
                   relayBuffer, upFetches>>

\* await reader.read() rejects: the outer catch logs, finally closes.
RelayReadFailed ==
    /\ relayPc = "read"
    /\ \E c \in {Close(OutSt)} :
          /\ outbound' = c.outbound
          /\ outState' = c.state
          /\ staleCalls' = c.stale
    /\ closeCalls' = closeCalls + 1
    /\ upState' = "errored"
    /\ relayPc' = "done"
    /\ UNCHANGED <<response, request, messageId, textId, upItems, upTail, upos, relayBuffer,
                   upFetches>>

\* The reader of the outbound stream cancels it: the client went away.
OutboundCancelled ==
    /\ relayPc = "read" /\ outState = "open"
    /\ outState' = "cancelled"
    /\ UNCHANGED <<relayPc, response, request, messageId, textId, upItems, upTail, upos,
                   relayBuffer, outbound, closeCalls, staleCalls, upFetches, upState>>

RelayInit ==
    /\ relayPc = "idle"
    /\ response = "none"
    /\ request = "none"
    /\ messageId = Undef
    /\ textId = Undef
    /\ upItems = <<>> /\ upTail = <<>> /\ upos = 0
    /\ relayBuffer = <<>>
    /\ outbound = <<>>
    /\ outState = "none"
    /\ closeCalls = 0
    /\ staleCalls = 0
    /\ upFetches = 0
    /\ upState = "none"

ClientInit ==
    /\ messages = <<>>
    /\ isLoading = FALSE
    /\ currentStatus = Null
    /\ hasInitialized = FALSE
    /\ abortControllerRef = 0
    /\ abortedSignals = {}
    /\ initialQuery = <<>>
    /\ chatSubmitted = FALSE
    /\ mounted = FALSE
    /\ stored = NoItem
    /\ crashed = FALSE
    /\ reloads = 0
    /\ pc = "idle"
    /\ rpos = 0 /\ buffer = <<>>
    /\ wireItems = <<>> /\ wireTail = <<>> /\ traffic = 0
    /\ decoded = <<>>
    /\ exch = <<>>
    /\ errWrites = <<>>
    /\ caught = "none"
    /\ fetches = 0
    /\ lastOp = "mount"

\* ------------------------------------------------------------------ storage
MaxReloads == 1

\* JSON.stringify of a Message: toJSON turns the Date into a string, a key
\* whose value is undefined is left out and reads as undefined again.
ToJson(m) == [m EXCEPT !.timestamp = "string"]

\* JSON.stringify(messages)
StringifyMessages(msgs) ==
    <<Ch("["), <<"elements", [i \in 1..Len(msgs) |-> ToJson(msgs[i])]>>, Ch("]")>>

\* A stored text that JSON.parse rejects.
Unparseable == <<Ch("[")>>

\* JSON.parse(saved): ok is FALSE where it throws.
ParseMessages(saved) ==
    IF Len(saved) = 3 /\ saved[1] = Ch("[") /\ saved[3] = Ch("]")
    THEN [ok |-> TRUE, value |-> saved[2][2]]
    ELSE [ok |-> FALSE, value |-> Undef]

\* A page that restores only the first message of the stored list.
LoadMessagesFirstOnly(saved) ==
    IF saved # NoItem /\ ParseMessages(saved).ok /\ ParseMessages(saved).value # <<>>
    THEN <<ParseMessages(saved).value[1]>>
    ELSE <<>>

\* The initial state of messages: the stored list when there is one and it
\* parses, [] otherwise.
LoadMessages(saved) ==
    IF saved # NoItem /\ ParseMessages(saved).ok
    THEN ParseMessages(saved).value
    ELSE <<>>

\* The persist effect.  It runs after the mount and after every render with a
\* new messages array, and writes when the list is not empty.  setItem either
\* stores the text or throws; nothing catches what an effect throws, and React
\* removes the tree.
PersistEffect ==
    IF mounted' /\ (messages' # messages \/ ~mounted) /\ messages' # <<>>
    THEN \E setItem \in {"stored", "throws"} :
            IF setItem = "stored"
            THEN stored' = StringifyMessages(messages') /\ crashed' = FALSE
            ELSE stored' = stored /\ crashed' = TRUE
    ELSE stored' = stored /\ crashed' = FALSE

\* The browser loads the page again with the same URL: the document and the
\* call it was running are gone, every piece of React state starts from its
\* initial value and messages from what storage holds, which is what the page
\* wrote or a text that does not parse.
Reload ==
    /\ mounted
    /\ reloads < MaxReloads
    /\ traffic < MaxTraffic
    /\ reloads' = reloads + 1
    /\ traffic' = traffic + 1
    /\ lastOp' = "reload"
    /\ \E saved \in {stored, Unparseable} :
          /\ stored' = saved
          /\ messages' = LoadMessages(saved)
    /\ crashed' = FALSE
    /\ mounted' = FALSE
    /\ isLoading' = FALSE
    /\ currentStatus' = Null
    /\ hasInitialized' = FALSE
    /\ abortControllerRef' = 0
    /\ abortedSignals' = {}
    /\ pc' = "idle"
    /\ rpos' = 0 /\ buffer' = <<>>
    /\ wireItems' = <<>> /\ wireTail' = <<>>
    /\ decoded' = <<>>
    /\ exch' = IF InFlight THEN Front(exch) ELSE exch
    /\ errWrites' = IF InFlight THEN Front(errWrites) ELSE errWrites
    /\ caught' = "none"
    /\ UNCHANGED <<initialQuery, chatSubmitted, fetches>>

\* The page and the route run in different processes and share no variable:
\* a behaviour follows one of them, from the state in which the other has not
\* started.
PageUntouched == ~mounted /\ reloads = 0
RelayUntouched == relayPc = "idle" /\ response = "none"

Page(A) ==
    RelayUntouched /\ ~crashed /\ A /\ PersistEffect /\ UNCHANGED relayVars
Load(A) == RelayUntouched /\ A /\ UNCHANGED relayVars
Route(A) == PageUntouched /\ A /\ UNCHANGED clientVars

Init == ClientInit /\ RelayInit
Next ==
    \/ Page(InitialQueryEffect)
    \/ Page(HandleSubmit)
    \/ Page(HandleKeyDown)
    \/ Page(StopGeneration)
    \/ Page(FetchFailed)
    \/ Page(FetchResponded)
    \/ Page(ReadChunk)
    \/ Page(ReadDone)
    \/ Page(ReadFailed)
    \/ Load(Reload)
    \/ Route(Post)
    \/ Route(UpstreamFailed)
    \/ Route(UpstreamNoBody)
    \/ Route(UpstreamResponded)
    \/ Route(RelayReadChunk)
    \/ Route(RelayReadDone)
    \/ Route(RelayReadFailed)
    \/ Route(OutboundCancelled)
Spec == Init /\ [][Next]_vars

\* ------------------------------------------------------------------ properties
\* The frames of items whose line is complete within the first n characters of
\* the body: the line of a frame ends with the first character of its
\* delimiter.
Arrived(items, n) ==
    LET ends == {k \in 1..Len(items) : Len(EncodeAll(SubSeq(items, 1, k))) - 1 <= n}
    IN  SubSeq(items, 1, Cardinality(ends))

\* The values under key of the events of items whose type is in types, joined
\* in the order of items.
RECURSIVE ConcatOf(_, _, _)
ConcatOf(items, types, key) ==
    IF items = <<>> THEN <<>>
    ELSE (IF Head(items).kind = "event" /\ Head(items).obj["type"] \in types
          THEN <<Ch(Head(items).obj[key])>>
          ELSE <<>>) \o ConcatOf(Tail(items), types, key)

\* A frame sequence in which [DONE], if it is there, is the last frame.
ValidSequence(items) == \A i \in 1..(Len(items) - 1) : items[i].kind # "done"

\* The call is suspended in its try block: at the fetch, or at a read.
Suspended == pc \in {"fetch", "read"}

\* C1: while the consumer reads a valid frame sequence, the content of the
\* trailing assistant message is the deltas of the frames that have arrived,
\* joined in arrival order, each once, and its thinking is their thinking
\* contents joined in arrival order; status frames, wherever they stand, do
\* not count.
C1_Ordering ==
    pc = "read" /\ ValidSequence(wireItems) =>
        LET got == Arrived(wireItems, rpos)
        IN  /\ Last(messages).role = "assistant"
            /\ Last(messages).content = ConcatOf(got, {"text-delta", "content"}, "delta")
            /\ Last(messages).thinking = ConcatOf(got, {"thinking"}, "content")

C1_Witness ==
    /\ pc = "read"
    /\ rpos = Len(Wire)
    /\ wireItems = <<Event(Obj3("text-delta", "id", "s1", "delta", "a")),
                     Event(Obj2("status", "status", "searching")),
                     Event(Obj3("text-delta", "id", "s1", "delta", "b"))>>
    /\ Last(messages).content = <<Ch("a"), Ch("b")>>

\* The state of the outbound stream right after start() has opened it.
Opened ==
    [outbound |-> <<StartFrame(messageId), TextStartFrame(textId)>>,
     state |-> "open", stale |-> 0, thrown |-> FALSE]

\* C2: however the text of a valid frame sequence was cut into chunks, what
\* the consumer has decoded and applied, and what the relay has forwarded, is
\* what one pass of the loop over the same text as a single chunk gives.
C2_ChunkSplitInvariance ==
    /\ pc = "read" /\ ValidSequence(wireItems) =>
         LET one == Feed(<<>>, SubSeq(Wire, 1, rpos),
                         Front(messages) \o <<AssistantPlaceholder>>, "thinking", <<>>)
         IN  /\ decoded = one.decoded
             /\ messages = one.messages
             /\ currentStatus = one.currentStatus
             /\ buffer = one.buffer
    /\ relayPc = "read" /\ outState = "open" =>
         LET one == RelayFeed(<<>>, SubSeq(Upstream, 1, upos), Opened, textId)
         IN  /\ outbound = one.outbound
             /\ relayBuffer = one.buffer

\* A chunk ended inside the "data: " prefix of the second frame.
C2_Witness ==
    /\ pc = "read"
    /\ Len(decoded) = 1
    /\ buffer = <<Ch("d"), Ch("a")>>
    /\ Len(wireItems) = 3

\* C3: a terminal exchange keeps its state and its count of failure reports
\* in every step; no exchange has more than one failure report, and only an
\* Errored one has any; a call that has left its try block has left its
\* exchange Completed, Aborted or Errored, and a suspended call has not.
C3_OneTerminalState ==
    /\ [](\A k \in 1..Len(exch) :
            /\ errWrites[k] <= 1
            /\ errWrites[k] = 1 => exch[k] = "Errored")
    /\ [](~isLoading => \A k \in 1..Len(exch) : exch[k] \in Terminal)
    /\ [](Suspended => InFlight)
    /\ [][\A k \in 1..Len(exch) :
            exch[k] \in Terminal =>
                /\ Len(exch') >= k
                /\ exch'[k] = exch[k]
                /\ errWrites'[k] = errWrites[k]]_vars

\* stopGeneration ran after the read had failed.
C3_Witness ==
    /\ lastOp = "stopGeneration"
    /\ exch = <<"Errored">>
    /\ errWrites = <<1>>

\* C4: every exchange but the last is terminal, and a sendMessage call made
\* while the last one is in flight leaves the messages, the requests issued,
\* the cancel handle and the exchanges as they are.
C4_SingleExchange ==
    /\ [](\A k \in 1..(Len(exch) - 1) : exch[k] \in Terminal)
    /\ [][InFlight /\ lastOp' \in {"handleSubmit", "handleKeyDown", "initialQueryEffect"}
            => UNCHANGED <<messages, fetches, abortControllerRef, exch>>]_vars

\* handleSubmit was called while the first exchange was streaming.
C4_Witness ==
    /\ lastOp = "handleSubmit"
    /\ pc = "read"
    /\ exch = <<"Streaming">>
    /\ decoded # <<>>

\* C5: stopGeneration on a suspended call ends its exchange Aborted and
\* leaves every message as it is; an Aborted exchange has no failure report.
C5_CancelKeepsPartial ==
    /\ [](\A k \in 1..Len(exch) : exch[k] = "Aborted" => errWrites[k] = 0)
    /\ [][lastOp' = "stopGeneration" /\ Suspended
            => exch' = SetExchange("Aborted") /\ messages' = messages]_vars

\* Cancelled after the delta "a" was applied.
C5_Witness ==
    /\ lastOp = "stopGeneration"
    /\ exch = <<"Aborted">>
    /\ Len(messages) = 2
    /\ messages[2].content = <<Ch("a")>>
    /\ errWrites = <<0>>

\* C6: stopGeneration on a call that is not suspended (none started, or the
\* exchange terminal, or a second cancel) changes no state of the page, and
\* no call is ever suspended on a signal that is already aborted.
C6_CancelIdempotent ==
    /\ [](Suspended => ~SignalAborted)
    /\ [][lastOp' = "stopGeneration" /\ ~Suspended
            => UNCHANGED <<callVars, streamVars, pageVars>>]_vars

\* The first exchange was cancelled, the second completed, and stopGeneration
\* ran once more after that.
C6_Witness ==
    /\ lastOp = "stopGeneration"
    /\ exch = <<"Aborted", "Completed">>
    /\ abortedSignals = {1}

\* The type of an outbound chunk: the type of its JSON document, or the
\* sentinel.
FrameObj(chunk) == JsonParse(SubSeq(chunk, PrefixLen + 1, Len(chunk) - 2)).obj
FrameType(chunk) == IF chunk = SseDone THEN "[DONE]" ELSE FrameObj(chunk)["type"]

\* The backend body is being read, or was read to its end or to a failure.
BodyOpened == upState \in {"open", "ended", "errored"}

\* C7: once the upstream body has ended and the outbound stream was not
\* cancelled by its reader, the stream is closed, its last two chunks are the
\* text-end frame with the request's text id and then the sentinel, and no
\* chunk before them is a text-end frame or the sentinel.
C7_NormalEnd ==
    upState = "ended" /\ outState # "cancelled" =>
        LET n == Len(outbound)
        IN  /\ outState = "closed"
            /\ relayPc = "done"
            /\ n >= 4
            /\ outbound[n - 1] = TextEndFrame(textId)
            /\ outbound[n] = SseDone
            /\ \A i \in 1..(n - 2) : FrameType(outbound[i]) \notin {"text-end", "[DONE]"}

\* The upstream ended after one event was forwarded.
C7_Witness ==
    /\ upState = "ended"
    /\ outState = "closed"
    /\ Len(outbound) = 5
    /\ FrameType(outbound[3]) = "text-delta"

\* C8: on every outbound stream opened over a backend body the first chunk is
\* start with the message id, the second is text-start with the text id, no
\* later chunk is a start or text-start frame, and every text-delta and
\* text-end frame carries the text id.
C8_Envelope ==
    BodyOpened =>
        /\ Len(outbound) >= 2
        /\ outbound[1] = StartFrame(messageId)
        /\ outbound[2] = TextStartFrame(textId)
        /\ \A i \in 3..Len(outbound) :
              /\ FrameType(outbound[i]) \notin {"start", "text-start"}
              /\ FrameType(outbound[i]) \in {"text-delta", "text-end"}
                    => FrameObj(outbound[i])["id"] = textId

\* Two text deltas were forwarded and the stream ended.
C8_Witness ==
    /\ upState = "ended"
    /\ Len(outbound) = 6
    /\ FrameType(outbound[3]) = "text-delta"
    /\ FrameType(outbound[4]) = "text-delta"
    /\ FrameType(outbound[5]) = "text-end"

\* The outbound frame of one upstream frame: none for a frame that is no JSON
\* or has another type.
Forwarded(it, tid) ==
    IF it.kind # "event" THEN <<>>
    ELSE CASE it.obj["type"] = "status" ->
                <<SseFrame(Obj2("status", "status", it.obj["status"]))>>
           [] it.obj["type"] = "thinking" ->
                <<SseFrame(Obj2("thinking", "content", it.obj["content"]))>>
           [] it.obj["type"] = "content" ->
                <<SseFrame(Obj3("text-delta", "id", tid, "delta", it.obj["content"]))>>
           [] it.obj["type"] = "sources" ->
                <<SseFrame(Obj2("sources", "sources", it.obj["sources"]))>>
           [] OTHER -> <<>>

RECURSIVE ForwardedAll(_, _)
ForwardedAll(items, tid) ==
    IF items = <<>> THEN <<>>
    ELSE Forwarded(Head(items), tid) \o ForwardedAll(Tail(items), tid)

\* The outbound chunks between the two opening frames and the two closing
\* ones.
Mapped == SubSeq(outbound, 3, Len(outbound) - (IF upState = "ended" THEN 2 ELSE 0))

\* C9: while the outbound stream is not cancelled by its reader, the chunks
\* between the opening and the closing frames are, in upstream order, one
\* frame for each status, thinking, content and sources event that has
\* arrived (as status, thinking, text-delta, sources, with its payload), and
\* nothing else.
C9_OneToOne ==
    BodyOpened /\ outState # "cancelled" =>
        Mapped = ForwardedAll(Arrived(upItems, upos), textId)

\* Three events of three types have been forwarded.
C9_Witness ==
    /\ upState = "open"
    /\ outState = "open"
    /\ upos = Len(Upstream)
    /\ upItems = <<Event(Obj2("content", "content", "a")),
                   Event(Obj2("thinking", "content", "t")),
                   Event(Obj2("content", "content", "b"))>>
    /\ Len(outbound) = 5

\* An outbound chunk that reports an error.
IsErrorFrame(chunk) == FrameType(chunk) = "error"

\* C10 as stated: once the backend connection has failed, the outbound stream
\* holds an error frame and is closed.
C10_ErrorEventOnFailure ==
    upState = "failed" =>
        /\ outState = "closed"
        /\ \E i \in 1..Len(outbound) : IsErrorFrame(outbound[i])

\* C10, amended: once the backend connection has failed, the call has
\* answered with the 500 response and has opened no outbound stream: nothing
\* was enqueued, nothing closed.
C10_FailureAnswers500 ==
    upState = "failed" =>
        /\ relayPc = "done"
        /\ response = "500"
        /\ outState = "none"
        /\ outbound = <<>>
        /\ closeCalls = 0

C10_Witness ==
    /\ upState = "failed"
    /\ response = "500"
    /\ upFetches = 1

\* C11: a step that ends an exchange Errored writes the failure text into
\* the assistant message when its content is empty, and leaves every message
\* as it is when content had been streamed into it.
C11_PartialContentKept ==
    [][InFlight /\ exch' = SetExchange("Errored") =>
          IF Last(messages).content = <<>>
          THEN Last(messages').content = FallbackText
          ELSE messages' = messages]_vars

\* The sources of the last sources event of items, undefined when there is
\* none.
RECURSIVE LastSources(_)
LastSources(items) ==
    IF items = <<>> THEN Undef
    ELSE IF Last(items).kind = "event" /\ Last(items).obj["type"] = "sources"
         THEN Last(items).obj["sources"]
         ELSE LastSources(Front(items))

\* items without its sources events.
RECURSIVE WithoutSources(_)
WithoutSources(items) ==
    IF items = <<>> THEN <<>>
    ELSE (IF Head(items).kind = "event" /\ Head(items).obj["type"] = "sources"
          THEN <<>> ELSE <<Head(items)>>) \o WithoutSources(Tail(items))

\* C12: while the consumer reads a valid frame sequence, the sources of the
\* trailing assistant message are the list of the last sources event that has
\* arrived (none: undefined), and its content and thinking are what the
\* arrived frames give with the sources events taken out.
C12_SourcesReplace ==
    pc = "read" /\ ValidSequence(wireItems) =>
        LET got == Arrived(wireItems, rpos)
            rest == WithoutSources(got)
        IN  /\ Last(messages).sources = LastSources(got)
            /\ Last(messages).content = ConcatOf(rest, {"text-delta", "content"}, "delta")
            /\ Last(messages).thinking = ConcatOf(rest, {"thinking"}, "content")

\* Two sources events with different lists, a delta between them.
C12_Witness ==
    /\ pc = "read"
    /\ rpos = Len(Wire)
    /\ wireItems = <<Event(Obj2("sources", "sources", "S1")),
                     Event(Obj3("text-delta", "id", "s1", "delta", "a")),
                     Event(Obj2("sources", "sources", "S2"))>>
    /\ Last(messages).sources = "S2"
    /\ Last(messages).content = <<Ch("a")>>

\* A frame whose payload is no JSON document, or whose type is none of types.
Malformed(it, types) ==
    \/ it.kind = "garbage"
    \/ it.kind = "event" /\ it.obj["type"] \notin types

RECURSIVE WithoutMalformed(_, _)
WithoutMalformed(items, types) ==
    IF items = <<>> THEN <<>>
    ELSE (IF Malformed(Head(items), types) THEN <<>> ELSE <<Head(items)>>)
         \o WithoutMalformed(Tail(items), types)

ConsumerTypes == {"content", "text-delta", "sources", "thinking", "status"}
RelayTypes == {"status", "thinking", "content", "sources"}

\* C13: while a valid frame sequence is read, the messages and the workflow
\* status of the consumer are what one pass over the arrived frames without
\* the malformed ones gives, the exchange is Streaming with no failure
\* report, and the relay has forwarded what one pass over its arrived frames
\* without the malformed ones forwards.
C13_MalformedSkipped ==
    /\ pc = "read" /\ ValidSequence(wireItems) =>
         LET clean == WithoutMalformed(Arrived(wireItems, rpos), ConsumerTypes)
             one == Feed(<<>>, EncodeAll(clean),
                         Front(messages) \o <<AssistantPlaceholder>>, "thinking", <<>>)
         IN  /\ messages = one.messages
             /\ currentStatus = one.currentStatus
             /\ Last(exch) = "Streaming"
             /\ Last(errWrites) = 0
    /\ relayPc = "read" /\ outState = "open" =>
         LET clean == WithoutMalformed(Arrived(upItems, upos), RelayTypes)
         IN  outbound = RelayFeed(<<>>, EncodeAll(clean), Opened, textId).outbound

\* Delta "a", a payload that is no JSON, delta "b": content is "ab".
C13_Witness ==
    /\ pc = "read"
    /\ rpos = Len(Wire)
    /\ wireItems = <<Event(Obj3("text-delta", "id", "s1", "delta", "a")),
                     GarbageItem,
                     Event(Obj3("text-delta", "id", "s1", "delta", "b"))>>
    /\ Last(messages).content = <<Ch("a"), Ch("b")>>
    /\ Last(exch) = "Streaming"

\* The deltas of items that belong to a span open where they stand: opened by
\* a text-start frame with their id before them, not closed by a text-end
\* frame since.  open is the set of span ids open before items.
RECURSIVE OpenSpanDeltas(_, _)
OpenSpanDeltas(items, open) ==
    IF items = <<>> THEN <<>>
    ELSE LET it == Head(items)
             t == IF it.kind = "event" THEN it.obj["type"] ELSE "none"
         IN  IF t = "text-start"
             THEN OpenSpanDeltas(Tail(items), open \cup {it.obj["id"]})
             ELSE IF t = "text-end"
             THEN OpenSpanDeltas(Tail(items), open \ {it.obj["id"]})
             ELSE IF t = "text-delta" /\ it.obj["id"] \in open
             THEN <<Ch(it.obj["delta"])>> \o OpenSpanDeltas(Tail(items), open)
             ELSE OpenSpanDeltas(Tail(items), open)

\* C14: while the consumer reads a valid frame sequence, the content of the
\* trailing assistant message is made of the deltas whose span was open when
\* they arrived; a delta of a span never started, or ended, adds nothing.
C14_DeltaNeedsOpenSpan ==
    pc = "read" /\ ValidSequence(wireItems) =>
        Last(messages).content = OpenSpanDeltas(Arrived(wireItems, rpos), {})

\* The read loop has decoded the sentinel on the stream it reads.
DoneSeen == \E i \in 1..Len(decoded) : decoded[i] = Obj1("[DONE]")

\* C15: once the consumer has decoded [DONE], no further chunk of the same
\* stream changes a message or the workflow status: a step that leaves the
\* call in its read loop leaves both as they are.
C15_NothingAfterDone ==
    [][pc = "read" /\ DoneSeen /\ pc' = "read" =>
          messages' = messages /\ currentStatus' = currentStatus]_vars

\* C16: stopGeneration on a suspended call is observed within the pending
\* fetch or read: in the same step the call leaves its try block with the
\* messages as the events read so far left them, the exchange Aborted,
\* loading and workflow status cleared and the cancel handle dropped; and no
\* fetch or read of a call resolves on a signal that is already aborted.
C16_CancelObserved ==
    /\ [][lastOp' = "stopGeneration" /\ Suspended =>
            /\ pc' = "idle"
            /\ messages' = messages
            /\ exch' = SetExchange("Aborted")
            /\ isLoading' = FALSE
            /\ currentStatus' = Null
            /\ abortControllerRef' = 0]_vars
    /\ [][lastOp' \in {"fetch", "read"} => ~SignalAborted]_vars

\* Cancelled at a read after a thinking event and a delta were applied.
C16_Witness ==
    /\ lastOp = "stopGeneration"
    /\ exch = <<"Aborted">>
    /\ ~isLoading
    /\ currentStatus = Null
    /\ Len(messages) = 2
    /\ messages[2].thinking = <<Ch("t")>>
    /\ messages[2].content = <<Ch("b")>>

\* C17: the relay holds no open backend connection for an outbound stream
\* that its reader has cancelled.
C17_UpstreamReleased == outState = "cancelled" => upState # "open"

\* C18: a call that leaves its try block on an error other than the
\* AbortError (the fetch rejected, the response status was no success, the
\* response had no body, a read rejected) ends its exchange Errored, and no
\* exchange is Completed by a call that caught an error.
C18_FailuresEndErrored ==
    /\ [][Suspended /\ pc' = "idle" /\ caught' \notin {"none", "AbortError"} =>
            exch' = SetExchange("Errored")]_vars
    /\ [][Suspended /\ pc' = "idle" /\ exch' = SetExchange("Completed") =>
            caught' = "none" /\ pc = "read"]_vars

\* The response to the chat request had a status that is no success.
C18_Witness ==
    /\ exch = <<"Errored">>
    /\ caught = "Failed to send message"
    /\ lastOp = "fetch"
    /\ ~isLoading

\* The fields of a message that the conversation is made of: everything but
\* the timestamp.
Fields(m) ==
    [role |-> m.role, content |-> m.content, thinking |-> m.thinking,
     sources |-> m.sources]
SameConversation(a, b) ==
    Len(a) = Len(b) /\ \A i \in 1..Len(a) : Fields(a[i]) = Fields(b[i])

\* C19: while no write to storage has thrown, a conversation that is not empty
\* is the list that parsing the stored text gives, message by message, in
\* role, content, thinking and sources; a page load starts from exactly that
\* list, so from the list the page showed when storage still held what it
\* wrote, and from the empty list when the stored text does not parse.
C19_PersistenceRoundTrip ==
    /\ [](~crashed /\ messages # <<>> =>
            /\ stored # NoItem
            /\ ParseMessages(stored).ok
            /\ SameConversation(ParseMessages(stored).value, messages))
    /\ [][lastOp' = "reload" /\ reloads' = reloads + 1 =>
            /\ ParseMessages(stored').ok =>
                  SameConversation(messages', ParseMessages(stored').value)
            /\ ~ParseMessages(stored').ok => messages' = <<>>
            /\ ~crashed /\ messages # <<>> /\ stored' = stored =>
                  SameConversation(messages', messages)]_vars

\* A page load restored a question and the answer streamed so far.
C19_Witness ==
    /\ lastOp = "reload"
    /\ Len(messages) = 2
    /\ messages[1].role = "user"
    /\ messages[2].content = <<Ch("a")>>
    /\ messages[2].sources = "S1"
    /\ messages[2].timestamp = "string"

\* A page load found a stored text that does not parse.
C19_WitnessUnparseable ==
    /\ lastOp = "reload"
    /\ stored = Unparseable
    /\ messages = <<>>
    /\ fetches = 1

\* C20: a write to storage that throws leaves the page running: no exchange
\* is in flight in a state in which the failed write has made React remove
\* the component, where the conversation receives no further event and the
\* exchange reaches no terminal state.
C20_StreamingSurvivesStorageFailure == ~(crashed /\ InFlight)

\* items without its status events.
RECURSIVE WithoutStatus(_)
WithoutStatus(items) ==
    IF items = <<>> THEN <<>>
    ELSE (IF Head(items).kind = "event" /\ Head(items).obj["type"] = "status"
          THEN <<>> ELSE <<Head(items)>>) \o WithoutStatus(Tail(items))

\* C21: while the consumer reads a valid frame sequence the messages are what
\* one pass over the arrived frames gives with the status events taken out;
\* the workflow status is not null exactly while the last exchange is in
\* flight, so it is "thinking" from the start of the exchange, null after any
\* terminal outcome, and never set while loading is false.
C21_StatusEphemeral ==
    /\ pc = "read" /\ ValidSequence(wireItems) =>
         messages = Feed(<<>>, EncodeAll(WithoutStatus(Arrived(wireItems, rpos))),
                         Front(messages) \o <<AssistantPlaceholder>>,
                         "thinking", <<>>).messages
    /\ currentStatus # Null => isLoading
    /\ InFlight <=> currentStatus # Null
    /\ pc = "fetch" => currentStatus = "thinking"

\* A status event between two deltas has set the indicator and the content is
\* the two deltas.
C21_Witness ==
    /\ pc = "read"
    /\ rpos = Len(Wire)
    /\ wireItems = <<Event(Obj3("text-delta", "id", "s1", "delta", "a")),
                     Event(Obj2("status", "status", "searching")),
                     Event(Obj3("text-delta", "id", "s1", "delta", "b"))>>
    /\ currentStatus = "searching"
    /\ Last(messages).content = <<Ch("a"), Ch("b")>>
    /\ isLoading

\* The text after the last line break of t.
RECURSIVE AfterLastNL(_)
AfterLastNL(t) ==
    IF t = <<>> \/ Last(t) = NL THEN <<>>
    ELSE Append(AfterLastNL(Front(t)), Last(t))

\* What the consumer decodes from items: the object of every event, the
\* sentinel, nothing for a payload that is no JSON.
RECURSIVE DecodedOf(_)
DecodedOf(items) ==
    IF items = <<>> THEN <<>>
    ELSE (CASE Head(items).kind = "event" -> <<Head(items).obj>>
            [] Head(items).kind = "done" -> <<Obj1("[DONE]")>>
            [] OTHER -> <<>>) \o DecodedOf(Tail(items))

IsPrefix(a, b) == Len(a) <= Len(b) /\ SubSeq(b, 1, Len(a)) = a

\* C22: while a valid frame sequence is read, the consumer has decoded the
\* frames whose line has arrived, each once and in arrival order, and its
\* buffer is the text received after the last line break; the relay's buffer
\* is the text it received after the last line break and it has enqueued one
\* chunk for each arrived frame it forwards.  A read whose chunk holds no line
\* break decodes and emits nothing and appends the chunk to the buffer; every
\* read keeps what was decoded or enqueued before it.
C22_CompleteFramesOnce ==
    /\ [](pc = "read" /\ ValidSequence(wireItems) =>
            /\ buffer = AfterLastNL(SubSeq(Wire, 1, rpos))
            /\ decoded = DecodedOf(Arrived(wireItems, rpos)))
    /\ [](relayPc = "read" /\ outState = "open" =>
            /\ relayBuffer = AfterLastNL(SubSeq(Upstream, 1, upos))
            /\ Len(outbound) = 2 + Len(ForwardedAll(Arrived(upItems, upos), textId)))
    /\ [][pc = "read" /\ pc' = "read" /\ rpos' > rpos =>
            LET chunk == SubSeq(Wire, rpos + 1, rpos')
            IN  /\ IsPrefix(decoded, decoded')
                /\ (\A i \in 1..Len(chunk) : chunk[i] # NL) =>
                      /\ buffer' = buffer \o chunk
                      /\ decoded' = decoded
                      /\ messages' = messages]_vars
    /\ [][relayPc = "read" /\ relayPc' = "read" /\ upos' > upos =>
            LET chunk == SubSeq(Upstream, upos + 1, upos')
            IN  /\ IsPrefix(outbound, outbound')
                /\ (\A i \in 1..Len(chunk) : chunk[i] # NL) =>
                      /\ relayBuffer' = relayBuffer \o chunk
                      /\ outbound' = outbound]_vars

\* Two reads have ended inside the second frame: the first frame is decoded
\* and the buffer holds the tag and the opening brace of the second.
C22_Witness ==
    /\ pc = "read"
    /\ lastOp = "read"
    /\ Len(wireItems) = 2
    /\ wireItems[2].kind = "event"
    /\ Len(decoded) = 1
    /\ Len(buffer) = PrefixLen + 1
    /\ Last(buffer) = Ch("{")

\* C23: when the body ends, the text left in the buffer is decoded as one last
\* line: the consumer's messages after the end are those a pass over the
\* buffer followed by a line break gives, and the relay enqueues what that
\* pass forwards before the text-end frame and the sentinel.
C23_FinalFlush ==
    /\ [][pc = "read" /\ rpos = Len(Wire) /\ exch' = SetExchange("Completed") =>
            messages' = Feed(buffer, <<NL>>, messages, currentStatus, decoded).messages]_vars
    /\ [][relayPc = "read" /\ outState = "open" /\ upState' = "ended" =>
            outbound' = RelayFeed(relayBuffer, <<NL>>, OutSt, textId).outbound
                          \o <<TextEndFrame(textId), SseDone>>]_vars

\* C24: in every step of the page other than a page load, the message list
\* either keeps its length, and then every message but the last is unchanged
\* and the last one changes only if it is the assistant's and an exchange is
\* in flight, or grows by a user message followed by an empty assistant
\* placeholder, and then every message it had is unchanged.
C24_FrameCondition ==
    [][reloads' = reloads =>
         LET n == Len(messages)
         IN  \/ /\ Len(messages') = n
                /\ \A i \in 1..(n - 1) : messages'[i] = messages[i]
                /\ messages' # messages =>
                      /\ InFlight
                      /\ messages[n].role = "assistant"
                      /\ messages'[n].role = "assistant"
                      /\ messages'[n].timestamp = messages[n].timestamp
             \/ /\ Len(messages') = n + 2
                /\ \A i \in 1..n : messages'[i] = messages[i]
                /\ messages'[n + 1].role = "user"
                /\ messages'[n + 2] = AssistantPlaceholder
                /\ ~InFlight /\ InFlight']_vars

\* The second exchange streams thinking and a delta; the first one, which
\* failed, keeps its two messages.
C24_Witness ==
    /\ pc = "read"
    /\ lastOp = "read"
    /\ exch = <<"Errored", "Streaming">>
    /\ Len(messages) = 4
    /\ messages[2].content = FallbackText
    /\ messages[2].thinking = <<>>
    /\ messages[4].thinking = <<Ch("t")>>
    /\ messages[4].content = <<Ch("a")>>

\* C25: the messages alternate user, assistant from the first one, so a list
\* that is not empty ends with an assistant message; a step that starts an
\* exchange appends the user message with the submitted text and then an
\* assistant message with empty content and empty thinking, and leaves the
\* call before its fetch has answered, with nothing read; an exchange that
\* has read nothing and applied nothing still has its placeholder empty.
C25_Alternation ==
    /\ [](/\ Len(messages) % 2 = 0
          /\ \A i \in 1..Len(messages) :
                messages[i].role = IF i % 2 = 1 THEN "user" ELSE "assistant")
    /\ [](pc = "fetch" =>
            /\ Last(messages).content = <<>>
            /\ Last(messages).thinking = <<>>
            /\ Last(messages).sources = Undef)
    /\ [][Len(exch') = Len(exch) + 1 =>
            LET n == Len(messages)
            IN  /\ Len(messages') = n + 2
                /\ messages'[n + 1].role = "user"
                /\ messages'[n + 1].content # <<>>
                /\ messages'[n + 2].role = "assistant"
                /\ messages'[n + 2].content = <<>>
                /\ messages'[n + 2].thinking = <<>>
                /\ pc' \in {"fetch", "idle"}
                /\ rpos' = 0 /\ decoded' = <<>>]_vars

\* A second submission was accepted after the first exchange was cancelled
\* with a partial answer.
C25_Witness ==
    /\ exch = <<"Aborted", "Pending">>
    /\ pc = "fetch"
    /\ Len(messages) = 4
    /\ messages[2].content = <<Ch("a")>>
    /\ messages[3].role = "user"
    /\ messages[4].content = <<>>

\* C26: the relay issues at most one backend fetch per request, exactly one
\* once the request has passed validation, and none for a body that is no
\* JSON, has no messages or has an empty last message, which is answered 500
\* with no outbound stream; no step after a failed fetch, a missing body or a
\* failed read issues another fetch.
C26_OneUpstreamNoRetry ==
    /\ [](upFetches <= 1)
    /\ [](request = "ok" <=> upFetches = 1)
    /\ [](request \in {"bad json", "no messages", "no content"} =>
            /\ response = "500"
            /\ relayPc = "done"
            /\ upState = "none"
            /\ outState = "none" /\ outbound = <<>>)
    /\ [][(upState \in {"failed", "nobody", "errored", "ended"}) =>
            upFetches' = upFetches /\ upState' = upState]_vars

\* The backend body failed in the middle of the stream after one event was
\* forwarded: one fetch was made.
C26_Witness ==
    /\ upState = "errored"
    /\ relayPc = "done"
    /\ upFetches = 1
    /\ Len(outbound) = 3

\* C27: an exchange that has started and not ended has its call suspended in
\* the try block, at the fetch or at a read, so that the end, the failure or
\* the cancellation of the stream runs the finally clause, which clears
\* loading and the status and releases the cancel handle.
C27_StartedExchangeEnds == InFlight => Suspended

\* The outbound stream holds a text-end frame or the sentinel.
EndMarked ==
    \E i \in 1..Len(outbound) : FrameType(outbound[i]) \in {"text-end", "[DONE]"}

\* C28: the outbound stream holds a text-end frame or the sentinel only after
\* the backend body has ended; after a failed read of the body the relay has
\* finished, the stream is no longer open, holds neither of the two, and the
\* failing step has enqueued nothing.
C28_DoneOnlyOnNormalEnd ==
    /\ [](EndMarked => upState = "ended")
    /\ [](upState = "errored" =>
            /\ relayPc = "done"
            /\ outState \in {"closed", "cancelled"}
            /\ ~EndMarked)
    /\ [][upState' = "errored" /\ upState # "errored" => outbound' = outbound]_vars

\* The read failed after two events had been forwarded; the stream was closed
\* with four chunks, the last one a text-delta.
C28_Witness ==
    /\ upState = "errored"
    /\ outState = "closed"
    /\ Len(outbound) = 4
    /\ FrameType(outbound[4]) = "text-delta"

\* C29: the marker, once stored, stays stored across every step, page loads
\* included; a run of the mount effect starts an exchange only when the
\* marker is not stored before it and is stored after it, and then for the
\* initial query; a run that finds the marker changes neither the messages
\* nor the requests issued.
C29_AutoSubmitOnce ==
    /\ [][chatSubmitted => chatSubmitted']_vars
    /\ [][lastOp' = "initialQueryEffect" /\ mounted' /\ ~mounted =>
            /\ Len(exch') > Len(exch) =>
                  /\ ~chatSubmitted /\ chatSubmitted'
                  /\ initialQuery' # <<>>
                  /\ messages'[Len(messages) + 1].content = initialQuery'
            /\ chatSubmitted => UNCHANGED <<messages, fetches, exch, isLoading>>]_vars
    /\ [][chatSubmitted' /\ ~chatSubmitted => lastOp' = "initialQueryEffect"]_vars

\* The page was loaded again while the auto-submitted exchange was streaming;
\* the mount effect ran and did not submit: one request in all, the restored
\* partial answer, nothing loading.
C29_Witness ==
    /\ lastOp = "initialQueryEffect"
    /\ reloads = 1
    /\ chatSubmitted
    /\ initialQuery # <<>>
    /\ fetches = 1
    /\ exch = <<>>
    /\ ~isLoading
    /\ Len(messages) = 2
    /\ messages[1].content = initialQuery
    /\ messages[2].content = <<Ch("a")>>

\* C30: controller.close() is called at most once, exactly once when POST has
\* finished with a stream response, and neither enqueue nor close is ever
\* called on an outbound stream that is closed or cancelled.
C30_ClosedOnceNeverStale ==
    /\ closeCalls <= 1
    /\ relayPc = "done" /\ response = "stream" => closeCalls = 1
    /\ staleCalls = 0

====
